---- MODULE Spec2Model ----
(***************************************************************************)
(* Model of the SOAP load-test client pyApiAtac_mp.py: the control loop    *)
(* run_load_test, which starts one process per tick, and the units         *)
(* send_soap_request running in those processes.                           *)
(*                                                                         *)
(* Time is an integer number of clock quanta.  time.time() is the variable *)
(* now; it advances while a process is started, while the loop sleeps and  *)
(* while a join waits for its timeout.  DURATION_SECONDS and               *)
(* TARGET_INTERVAL are the module-level settings of the client, expressed  *)
(* in quanta and drawn from small ranges.                                  *)
(*                                                                         *)
(* The second part models the mock responder pyMock_soap_service.py: the   *)
(* handler SOAPHandler.do_POST, run by one thread per accepted connection. *)
(* An XML document is the tree of its elements as written (prefix, local   *)
(* name, default-namespace declaration, text, children); parsing resolves  *)
(* the namespaces as ElementTree does.  ServerSpec runs the responder      *)
(* alone, Spec the client alone.                                           *)
(***************************************************************************)
EXTENDS Integers, Sequences, FiniteSets, TLC

\* ---------------------------------------------------------------- bounds
MaxDuration == 2      \* largest DURATION_SECONDS explored, in quanta
MaxInterval == 2      \* largest TARGET_INTERVAL explored, in quanta
MaxExec == 2          \* longest time Process() + start() may take
MaxOversleep == 1     \* how much longer than asked time.sleep may sleep
MaxPid == 2           \* size of the operating system's pid pool
MaxConns == 2         \* connections the responder handles at the same time

\* ------------------------------------------------------ program constants
BASE_PARAMETER_VALUE == 1000
JOIN_TIMEOUT == 10

\* HTTP statuses the server may answer with: one accepted, one rejected
Statuses == {200, 500}

PidPool == 1..MaxPid

VARIABLES
    DURATION_SECONDS,     \* setting, line 26
    TARGET_INTERVAL,      \* setting, line 28 (1.0 / TARGET_RATE)
    now,                  \* the wall clock read by time.time()
    mainpc,               \* position of run_load_test
    error,                \* the exception that left run_load_test, if any
    start_time,
    request_count,
    processes,            \* the list of Process objects (the units), each
                          \* with the lines its process has printed
    iteration_start_time,
    execution_time,
    sleep_time,
    slept,                \* the argument time.sleep got in the last tick: {} when
                          \* it was not called, else {sleep_time}
    ticks,                \* number of loop bodies entered
    lost,                 \* time the ticks so far took beyond TARGET_INTERVAL
                          \* each: starting the process late, sleeping too long
    join_idx,             \* position of the for loop over processes
    abandoned,            \* units whose join returned on timeout
    end_time,
    summary,              \* the lines printed by run_load_test at the end
    conns,                \* responder: the accepted connections
    hlocals               \* responder: the local variables of each handler

vars == <<DURATION_SECONDS, TARGET_INTERVAL, now, mainpc, error, start_time,
          request_count, processes, iteration_start_time, execution_time,
          sleep_time, slept, ticks, lost, join_idx, abandoned, end_time,
          summary, conns, hlocals>>

server == <<conns, hlocals>>
client == <<DURATION_SECONDS, TARGET_INTERVAL, now, mainpc, error, start_time,
            request_count, processes, iteration_start_time, execution_time,
            sleep_time, slept, ticks, lost, join_idx, abandoned, end_time,
            summary>>

config == <<DURATION_SECONDS, TARGET_INTERVAL>>
loopLocals == <<iteration_start_time, execution_time, sleep_time, slept, lost>>

\* ------------------------------------------------------------ formatting
DigitChars == <<"0", "1", "2", "3", "4", "5", "6", "7", "8", "9">>

RECURSIVE Str(_)
\* str(n) of a non-negative integer, as the sequence of its characters
Str(n) == IF n < 10 THEN <<DigitChars[n + 1]>>
          ELSE Str(n \div 10) \o <<DigitChars[(n % 10) + 1]>>

\* f"P{process_id}" : an identifier that leaves the sequence number out
RequestIdPidOnly(process_id, count) == <<"P">> \o Str(process_id)

\* f"P{process_id}-R{request_count}"
RequestIdValue(process_id, count) ==
    <<"P">> \o Str(process_id) \o <<"-", "R">> \o Str(count)

UniqueParam(count) == BASE_PARAMETER_VALUE + count

\* ------------------------------------------------------------- the units
\* failed: a transport step of the unit raised.
\* "start": forked, somewhere in lines 49-85 (possibly blocked in a network
\* call); "reported": SUCCESS or FAILED printed, conn.close() not yet done;
\* "exited": the function returned; "raised": an exception left the function.
UnitPcs == {"unstarted", "start", "reported", "exited", "raised"}

Running(p) == p.pc \in {"start", "reported"}
Ended(p) == p.pc \in {"exited", "raised"}

Units == 1..Len(processes)

\* One printed outcome line.  late: the line came out after the summary.
Line(rid, kind, status, param) ==
    [rid |-> rid, kind |-> kind, status |-> status, param |-> param,
     late |-> summary # <<>>]

IdOf(i) == RequestIdValue(processes[i].pid, processes[i].arg)

\* a try block that ends before conn.close()
TryBlockWithoutClose == {"connect", "request", "getresponse", "read"}

\* the steps between "try:" and "except Exception"
TryBlock == {"connect", "request", "getresponse", "read", "close"}

\* line 85
IsSuccess(status) == 200 <= status /\ status < 300

\* A transport step of unit i raises: the handler of lines 96-97 prints the
\* CRITICAL ERROR line and the function returns; an exception raised outside
\* the try block leaves the function.
Raise(i, step) ==
    IF step \in TryBlock
    THEN processes' = [processes EXCEPT
             ![i].pc = "exited",
             ![i].failed = TRUE,
             ![i].out = Append(@, Line(IdOf(i), "CRITICAL ERROR", 0,
                                       UniqueParam(processes[i].arg)))]
    ELSE processes' = [processes EXCEPT ![i].pc = "raised", ![i].failed = TRUE]

unitFrame == <<server, config, now, mainpc, error, start_time, request_count,
               loopLocals, ticks, join_idx, abandoned, end_time, summary>>

\* lines 49-92: build the request, connect, send it, receive the status and
\* read the body, then print SUCCESS or FAILED; any of the four network steps
\* may raise instead
Exchange(i) ==
    /\ processes[i].pc = "start"
    /\ \/ \E s \in Statuses :
             processes' = [processes EXCEPT
                 ![i].pc = "reported",
                 ![i].out = Append(@,
                     IF IsSuccess(s)
                     THEN Line(IdOf(i), "SUCCESS", s, UniqueParam(processes[i].arg))
                     ELSE Line(IdOf(i), "FAILED", s, 0))]
       \/ \E step \in {"connect", "request", "getresponse", "read"} : Raise(i, step)
    /\ UNCHANGED unitFrame

\* line 94: conn.close()
Close(i) ==
    /\ processes[i].pc = "reported"
    /\ \/ processes' = [processes EXCEPT ![i].pc = "exited"]
       \/ Raise(i, "close")
    /\ UNCHANGED unitFrame

\* ---------------------------------------------------------- XML documents
SOAP_NAMESPACE == "http://schemas.xmlsoap.org/soap/envelope/"
TARGET_NAMESPACE == "http://tempuri.org/"
CLIENT_TARGET_NAMESPACE == "http://ApiAtackDriverExampleProgram.com/"
SERVICE_PATH == "/soap/endpoint"
SOAP_METHOD_NAME == "ApiMethod"
PARAM_TAG_NAME == "requestParameter"
REQUEST_ID_TAG_NAME == "requestId"

\* the text of an element without text, and a find() that found nothing
NoText == <<>>
NotFound == <<>>

\* An element as written: prefix ("" for none), local name, the default
\* namespace it declares with xmlns="..." ("" for no declaration), its text
\* and its children.
Written(prefix, local, xmlns, text, kids) ==
    [prefix |-> prefix, local |-> local, xmlns |-> xmlns, text |-> text,
     kids |-> kids]

\* the namespaces the documents bind their prefixes to
PrefixNamespace(prefix) ==
    CASE prefix = "soap" -> SOAP_NAMESPACE
      [] prefix = "c" -> CLIENT_TARGET_NAMESPACE
      [] prefix = "t" -> TARGET_NAMESPACE
      [] OTHER -> ""

RECURSIVE Parse(_, _)
\* ET.fromstring on a well-formed document: every element gets the tag
\* {namespace}local, the namespace being that of its prefix or, without a
\* prefix, the default namespace declared on it or on the nearest ancestor
Parse(w, inherited) ==
    LET default == IF w.xmlns # "" THEN w.xmlns ELSE inherited
        ns == IF w.prefix # "" THEN PrefixNamespace(w.prefix) ELSE default
    IN [tag |-> <<ns, w.local>>,
        text |-> w.text,
        kids |-> [k \in 1..Len(w.kids) |-> Parse(w.kids[k], default)]]

\* Element.find(tag): the first child with that tag
Find(element, tag) ==
    LET hits == {k \in 1..Len(element.kids) : element.kids[k].tag = tag}
    IN IF hits = {} THEN NotFound
       ELSE <<element.kids[CHOOSE k \in hits : \A l \in hits : k <= l]>>

\* lines 33-41 and 57-61: the envelope the client sends for one request
SoapEnvelope(method_name, param_value, request_id_value) ==
    Written("soap", "Envelope", "", NoText, <<
        Written("soap", "Body", "", NoText, <<
            Written("", method_name, CLIENT_TARGET_NAMESPACE, NoText, <<
                Written("", "requestParameter", "", Str(param_value), <<>>),
                Written("", "requestId", "", request_id_value, <<>>)
            >>)
        >>)
    >>)

\* lines 49-79: the POST of the unit with this pid and sequence number
ClientRequest(process_id, count) ==
    [path |-> SERVICE_PATH,
     content_length |-> "present",
     wellformed |-> TRUE,
     doc |-> SoapEnvelope(SOAP_METHOD_NAME, UniqueParam(count),
                          RequestIdValue(process_id, count))]

\* ----------------------------------------------------------- the responder
NA == <<"N", "/", "A">>
NoneStr == <<"N", "o", "n", "e">>

\* "{}".format(value) of a text or of None
Format(text) == IF text = NoText THEN NoneStr ELSE text

\* the lookups under the namespace the responder uses for its responses
LookupNamespaceOfResponses == TARGET_NAMESPACE

\* line 79
LookupNamespace == CLIENT_TARGET_NAMESPACE

\* the two lookups in the other order: without a namespace first
LookupPlainFirst(parent, name) ==
    LET plain == Find(parent, <<"", name>>)
    IN IF plain = NotFound THEN Find(parent, <<LookupNamespace, name>>) ELSE plain

\* lines 88-91, 96-98, 114-118: under the client's namespace, then without
Lookup(parent, name) ==
    LET qualified == Find(parent, <<LookupNamespace, name>>)
    IN IF qualified = NotFound THEN Find(parent, <<"", name>>) ELSE qualified

\* the identifier taken from whatever the lookup returned, None included
ReceivedRequestIdUnchecked(found) ==
    IF found = NotFound THEN NoneStr ELSE Format(found[1].text)

\* lines 70 and 130-131
ReceivedRequestId(found) ==
    IF found # NotFound /\ found[1].text # NoText THEN found[1].text ELSE NA

\* lines 74-141: what the try block leaves in the handler's variables, or
\* the exception it ends with
Extract(req) ==
    IF ~req.wellformed
    THEN [raised |-> "ParseError", received_param |-> NoText,
          received_request_id |-> NA]
    ELSE
    LET root == Parse(req.doc, "")
        body == Find(root, <<SOAP_NAMESPACE, "Body">>)
        method == IF body = NotFound THEN NotFound
                  ELSE Lookup(body[1], SOAP_METHOD_NAME)
        param == IF method = NotFound THEN NotFound
                 ELSE Lookup(method[1], PARAM_TAG_NAME)
    IN IF body = NotFound \/ method = NotFound \/ param = NotFound
       THEN [raised |-> "ValueError", received_param |-> NoText,
             received_request_id |-> NA]
       ELSE [raised |-> "none",
             received_param |-> param[1].text,
             received_request_id |->
                 ReceivedRequestId(Lookup(method[1], REQUEST_ID_TAG_NAME))]

\* ---- the requests the responder is given
Envelope(bodyKids) ==
    Written("soap", "Envelope", "", NoText,
            <<Written("soap", "Body", "", NoText, bodyKids)>>)

Leaf(prefix, local, text) == Written(prefix, local, "", text, <<>>)

Http(doc) ==
    [path |-> SERVICE_PATH, content_length |-> "present", wellformed |-> TRUE,
     doc |-> doc]

NoRequest ==
    [path |-> "", content_length |-> "", wellformed |-> FALSE,
     doc |-> Leaf("", "", NoText)]

V1 == Str(UniqueParam(1))
V2 == Str(UniqueParam(2))
ID1 == RequestIdValue(1, 1)
ID2 == RequestIdValue(2, 2)

\* the method element under the client's namespace, with these children
ClientMethod(kids) ==
    Written("", SOAP_METHOD_NAME, CLIENT_TARGET_NAMESPACE, NoText, kids)

\* no requestId element
NoIdRequest == Http(Envelope(<<ClientMethod(<<Leaf("", PARAM_TAG_NAME, V1)>>)>>))

\* a requestId element without text
EmptyIdRequest ==
    Http(Envelope(<<ClientMethod(<<Leaf("", PARAM_TAG_NAME, V1),
                                   Leaf("", REQUEST_ID_TAG_NAME, NoText)>>)>>))

\* method, parameter and identifier without any namespace
PlainRequest ==
    Http(Envelope(<<Written("", SOAP_METHOD_NAME, "", NoText,
                            <<Leaf("", PARAM_TAG_NAME, V1),
                              Leaf("", REQUEST_ID_TAG_NAME, ID1)>>)>>))

\* every element in both forms, the one without namespace written first and
\* carrying V2 and ID2, the one under the client's namespace V1 and ID1
BothFormsRequest ==
    Http(Envelope(<<
        Written("", SOAP_METHOD_NAME, "", NoText,
                <<Leaf("", PARAM_TAG_NAME, V2), Leaf("", REQUEST_ID_TAG_NAME, ID2)>>),
        Written("c", SOAP_METHOD_NAME, "", NoText,
                <<Leaf("", PARAM_TAG_NAME, V2), Leaf("c", PARAM_TAG_NAME, V1),
                  Leaf("", REQUEST_ID_TAG_NAME, ID2), Leaf("c", REQUEST_ID_TAG_NAME, ID1)>>)
    >>))

NoParamRequest ==
    Http(Envelope(<<ClientMethod(<<Leaf("", REQUEST_ID_TAG_NAME, ID1)>>)>>))

NoMethodRequest == Http(Envelope(<<>>))

NoBodyRequest == Http(Written("soap", "Envelope", "", NoText, <<>>))

\* the method under the namespace of the responder's own responses
TempuriRequest ==
    Http(Envelope(<<Written("", SOAP_METHOD_NAME, TARGET_NAMESPACE, NoText,
                            <<Leaf("", PARAM_TAG_NAME, V1),
                              Leaf("", REQUEST_ID_TAG_NAME, ID1)>>)>>))

\* a body that is not XML
MalformedRequest == [ClientRequest(1, 1) EXCEPT !.wellformed = FALSE]

\* no Content-Length header
NoLengthRequest == [ClientRequest(1, 1) EXCEPT !.content_length = "missing"]

WrongPathRequest == [ClientRequest(1, 1) EXCEPT !.path = "/other"]

ClientRequests == {ClientRequest(pid, n) : pid \in PidPool, n \in 1..MaxDuration}

Requests ==
    ClientRequests \cup
    {NoIdRequest, EmptyIdRequest, PlainRequest, BothFormsRequest, NoParamRequest,
     NoMethodRequest, NoBodyRequest, TempuriRequest, MalformedRequest,
     NoLengthRequest, WrongPathRequest}

Conns == 1..MaxConns

\* every thread writes the variables of one and the same handler
HandlerOfShared(c) == 1

\* lines 57 and 179: ThreadingTCPServer makes a new SOAPHandler for every
\* connection, and the variables of do_POST are local to the call
HandlerOf(c) == c

FreshLocals == [received_param |-> NoText, received_request_id |-> NA]
NoResponse == [code |-> 0, kind |-> "none", received_param |-> NoText,
               received_request_id |-> NoText]

\* lines 166-172
ErrorResponse(code) ==
    [code |-> code, kind |-> "html", received_param |-> NoText,
     received_request_id |-> NoText]

\* lines 147-160
SuccessResponse(locals) ==
    [code |-> 200, kind |-> "soap",
     received_param |-> Format(locals.received_param),
     received_request_id |-> Format(locals.received_request_id)]

\* a connection is accepted and its request arrives
Accept(c) ==
    /\ conns[c].pc = "listening"
    /\ \E req \in Requests :
          conns' = [conns EXCEPT ![c].pc = "accepted", ![c].req = req]
    /\ UNCHANGED <<hlocals, client>>

\* lines 59-141: the path check, the read of the body (int() of a missing
\* Content-Length raises outside the try block and leaves do_POST without a
\* response), the parse and the extraction, ending in the 400 response or in
\* the handler's variables holding the fields
DoPostExtract(c) ==
    /\ conns[c].pc = "accepted"
    /\ LET req == conns[c].req
           h == HandlerOf(c)
       IN IF req.path # SERVICE_PATH
          THEN /\ conns' = [conns EXCEPT ![c].pc = "done",
                                         ![c].resp = ErrorResponse(404)]
               /\ hlocals' = hlocals
          ELSE IF req.content_length # "present"
          THEN /\ conns' = [conns EXCEPT ![c].pc = "aborted"]
               /\ hlocals' = hlocals
          ELSE LET e == Extract(req)
               IN IF e.raised # "none"
                  THEN /\ conns' = [conns EXCEPT ![c].pc = "done",
                                                 ![c].resp = ErrorResponse(400)]
                       /\ hlocals' = [hlocals EXCEPT ![h] = FreshLocals]
                  ELSE /\ conns' = [conns EXCEPT ![c].pc = "extracted"]
                       /\ hlocals' = [hlocals EXCEPT ![h] =
                              [received_param |-> e.received_param,
                               received_request_id |-> e.received_request_id]]
    /\ UNCHANGED client

\* lines 147-163: the success envelope, from the handler's variables
DoPostRespond(c) ==
    /\ conns[c].pc = "extracted"
    /\ conns' = [conns EXCEPT ![c].pc = "done",
                              ![c].resp = SuccessResponse(hlocals[HandlerOf(c)])]
    /\ UNCHANGED <<hlocals, client>>

\* -------------------------------------------------------- the control loop
Init ==
    /\ DURATION_SECONDS \in 0..MaxDuration
    /\ TARGET_INTERVAL \in 1..MaxInterval
    /\ now = 0
    /\ mainpc = "idle"
    /\ error = "none"
    /\ start_time = 0
    /\ request_count = 0
    /\ processes = <<>>
    /\ iteration_start_time = 0
    /\ execution_time = 0
    /\ sleep_time = 0
    /\ slept = {}
    /\ ticks = 0
    /\ lost = 0
    /\ join_idx = 1
    /\ abandoned = {}
    /\ end_time = 0
    /\ summary = <<>>
    /\ conns = [c \in Conns |-> [pc |-> "listening", req |-> NoRequest,
                                 resp |-> NoResponse]]
    /\ hlocals = [h \in Conns |-> FreshLocals]

\* lines 107-109
Start ==
    /\ mainpc = "idle"
    /\ start_time' = now
    /\ request_count' = 0
    /\ processes' = <<>>
    /\ mainpc' = "check"
    /\ UNCHANGED <<server, config, now, error, loopLocals, ticks, join_idx, abandoned,
                   end_time, summary>>

\* the loop stops at the first reported failure
LoopConditionStopOnFailure ==
    /\ (now - start_time) < DURATION_SECONDS
    /\ \A i \in 1..Len(processes) : \A k \in 1..Len(processes[i].out) :
          processes[i].out[k].kind \notin {"FAILED", "CRITICAL ERROR"}

\* the loop test with <= for <
LoopConditionInclusive == (now - start_time) <= DURATION_SECONDS

\* line 112
LoopCondition == (now - start_time) < DURATION_SECONDS

LoopCheck ==
    /\ mainpc = "check"
    /\ IF LoopCondition
       THEN /\ mainpc' = "spawn"
            /\ ticks' = ticks + 1
            /\ join_idx' = join_idx
       ELSE /\ mainpc' = "join"
            /\ join_idx' = 1
            /\ ticks' = ticks
    /\ UNCHANGED <<server, config, now, error, start_time, request_count, processes,
                   loopLocals, abandoned, end_time, summary>>

\* a counter that is not advanced
NextSequenceStuck(count) == count

\* line 113
NextSequence(count) == count + 1

\* pids of the children that are still running; start() reaps the ended ones
PidsInUse == {processes[i].pid : i \in {j \in Units : Running(processes[j])}}

\* lines 113-120: count, take the tick's start time, create and start the
\* process.  os.fork() may fail (no pid or no memory left): nothing catches
\* the OSError, which leaves run_load_test.
Spawn ==
    /\ mainpc = "spawn"
    /\ request_count' = NextSequence(request_count)
    /\ iteration_start_time' = now
    /\ \/ \E pid \in PidPool \ PidsInUse, d \in 0..MaxExec :
             /\ processes' = Append(processes,
                   [pid |-> pid, arg |-> request_count', pc |-> "start",
                    failed |-> FALSE, out |-> <<>>])
             /\ now' = now + d
             /\ mainpc' = "rate"
             /\ error' = error
       \/ /\ processes' = Append(processes,
                   [pid |-> 0, arg |-> request_count', pc |-> "unstarted",
                    failed |-> FALSE, out |-> <<>>])
          /\ now' = now
          /\ mainpc' = "crashed"
          /\ error' = "OSError"
    /\ UNCHANGED <<server, config, start_time, execution_time, sleep_time, slept, ticks,
                   lost, join_idx, abandoned, end_time, summary>>

\* the distance to the target, whichever side of it the tick ended on
SleepTimeAbs(interval, exec) ==
    IF interval >= exec THEN interval - exec ELSE exec - interval

\* the subtraction the other way round
SleepTimeFlipped(interval, exec) == exec - interval

\* line 126
SleepTime(interval, exec) == interval - exec

\* the part of a launch that did not fit into the interval
Overrun(interval, exec) == IF exec > interval THEN exec - interval ELSE 0

\* lines 123-129
RateControl ==
    /\ mainpc = "rate"
    /\ execution_time' = now - iteration_start_time
    /\ sleep_time' = SleepTime(TARGET_INTERVAL, execution_time')
    /\ IF sleep_time' > 0
       THEN \E over \in 0..MaxOversleep :
               /\ slept' = {sleep_time'}
               /\ now' = now + sleep_time' + over
               /\ lost' = lost + Overrun(TARGET_INTERVAL, execution_time') + over
       ELSE /\ slept' = {}
            /\ now' = now
            /\ lost' = lost + Overrun(TARGET_INTERVAL, execution_time')
    /\ mainpc' = "check"
    /\ UNCHANGED <<server, config, error, start_time, request_count, processes,
                   iteration_start_time, ticks, join_idx, abandoned, end_time,
                   summary>>

\* lines 132-133: p.join(timeout=10) returns when the process has ended, or
\* after the timeout with the process still running
Join ==
    /\ mainpc = "join"
    /\ join_idx <= Len(processes)
    /\ \/ /\ Ended(processes[join_idx])
          /\ UNCHANGED <<now, abandoned>>
       \/ /\ Running(processes[join_idx])
          /\ now' = now + JOIN_TIMEOUT
          /\ abandoned' = abandoned \cup {join_idx}
    /\ join_idx' = join_idx + 1
    /\ UNCHANGED <<server, config, mainpc, error, start_time, request_count, processes,
                   loopLocals, ticks, end_time, summary>>

\* the number of units that have ended
TotalRequestsEnded == Cardinality({i \in Units : Ended(processes[i])})

\* line 141
TotalRequestsSent == request_count

\* lines 135-143: the clock may or may not have moved on since it was last
\* read; the division of line 138 raises ZeroDivisionError when end_time equals
\* start_time; otherwise the summary is printed
Report ==
    /\ mainpc = "join"
    /\ join_idx > Len(processes)
    /\ \E d \in {0, 1} : now' = now + d
    /\ end_time' = now'
    /\ IF end_time' - start_time = 0
       THEN /\ mainpc' = "crashed"
            /\ error' = "ZeroDivisionError"
            /\ summary' = summary
       ELSE /\ mainpc' = "stopped"
            /\ error' = error
            /\ summary' = Append(summary,
                   [total |-> TotalRequestsSent, duration |-> end_time' - start_time])
    /\ UNCHANGED <<server, config, start_time, request_count, processes, loopLocals,
                   ticks, join_idx, abandoned>>

Next ==
    \/ Start
    \/ LoopCheck
    \/ Spawn
    \/ RateControl
    \/ Join
    \/ Report
    \/ \E i \in Units : Exchange(i)
    \/ \E i \in Units : Close(i)

Spec == Init /\ [][Next]_vars

\* the responder alone: the client is not started
ServerInit == Init /\ DURATION_SECONDS = 0 /\ TARGET_INTERVAL = 1

ServerNext ==
    \/ \E c \in Conns : Accept(c)
    \/ \E c \in Conns : DoPostExtract(c)
    \/ \E c \in Conns : DoPostRespond(c)

ServerSpec == ServerInit /\ [][ServerNext]_vars

TypeOK ==
    /\ DURATION_SECONDS \in 0..MaxDuration
    /\ TARGET_INTERVAL \in 1..MaxInterval
    /\ mainpc \in {"idle", "check", "spawn", "rate", "join", "stopped", "crashed"}
    /\ error \in {"none", "OSError", "ZeroDivisionError"}
    /\ \A i \in Units : /\ processes[i].pc \in UnitPcs
                         /\ processes[i].pid \in PidPool \cup {0}
                         /\ processes[i].failed \in BOOLEAN
    /\ \A a \in slept : a \in Nat
    /\ abandoned \subseteq Units
    /\ Len(summary) <= 1
    /\ lost \in Nat
    /\ \A c \in Conns :
          /\ conns[c].pc \in {"listening", "accepted", "extracted", "done", "aborted"}
          /\ conns[c].pc # "listening" => conns[c].req \in Requests
          /\ conns[c].resp.code \in {0, 200, 400, 404}
    /\ request_count \in Nat
    /\ now \in Nat

\* ------------------------------------------------------------ properties
Started(i) == processes[i].pc # "unstarted"

Outcomes(i) == processes[i].out

RECURSIVE OutcomesUpTo(_)
\* the number of outcome lines printed by the units 1..n
OutcomesUpTo(n) == IF n = 0 THEN 0 ELSE OutcomesUpTo(n - 1) + Len(Outcomes(n))

InRunWindow == mainpc \in {"idle", "check", "spawn", "rate"}

\* C1: any two units started in one run carry distinct request identifiers,
\* and no identifier printed by one unit is printed by another, also when
\* the two units have the same pid.
C1_DistinctRequestIds ==
    \A i, j \in Units :
        (i # j /\ Started(i) /\ Started(j)) =>
            /\ IdOf(i) # IdOf(j)
            /\ \A k \in 1..Len(Outcomes(i)) : \A l \in 1..Len(Outcomes(j)) :
                   Outcomes(i)[k].rid # Outcomes(j)[l].rid

\* two units of the run have had the same pid and both have printed
C1_Witness ==
    \E i, j \in Units :
        /\ i # j
        /\ processes[i].pid = processes[j].pid
        /\ Outcomes(i) # <<>>
        /\ Outcomes(j) # <<>>

\* C2: every unit prints at most one outcome line, and during the run window
\* the number of issued tasks is at least the number of outcome lines.
C2_AtMostOneOutcome ==
    /\ \A i \in Units : Len(Outcomes(i)) <= 1
    /\ InRunWindow => request_count >= OutcomesUpTo(Len(processes))

\* C3: a unit in which a transport step raised has returned normally, and
\* the last line it printed is the CRITICAL ERROR line of its own request
\* identifier and parameter.
C3_FailureReported ==
    \A i \in Units :
        processes[i].failed =>
            /\ processes[i].pc = "exited"
            /\ Outcomes(i) # <<>>
            /\ LET last == Outcomes(i)[Len(Outcomes(i))]
               IN /\ last.kind = "CRITICAL ERROR"
                  /\ last.rid = IdOf(i)
                  /\ last.param = UniqueParam(processes[i].arg)

\* a unit failed in conn.close(), after its SUCCESS or FAILED line
C3_Witness ==
    \E i \in Units : processes[i].failed /\ Len(Outcomes(i)) = 2

SomeFailureReported ==
    \E i \in Units : \E k \in 1..Len(Outcomes(i)) :
        Outcomes(i)[k].kind \in {"FAILED", "CRITICAL ERROR"}

\* C4: the loop test goes on to the next tick exactly when the elapsed time
\* is below the duration, whatever the units have reported, and a step in
\* which a unit reports changes nothing of the control loop.
C4_FailureNeverAbortsLoop ==
    [][ /\ (mainpc = "check" /\ mainpc' # "check") =>
              IF (now - start_time) < DURATION_SECONDS
              THEN mainpc' = "spawn"
              ELSE mainpc' = "join"
        /\ (mainpc = "spawn" /\ mainpc' = "rate") =>
              Len(processes') = Len(processes) + 1
        /\ (\E i \in Units : Outcomes(i) # processes'[i].out) =>
              UNCHANGED <<mainpc, error, request_count, now, join_idx>>
      ]_vars

\* a further tick is begun after a unit has reported a failure
C4_Witness ==
    /\ mainpc = "spawn"
    /\ \E i \in Units : \E k \in 1..Len(Outcomes(i)) :
          Outcomes(i)[k].kind = "FAILED" /\ Outcomes(i)[k].status = 500

\* C5: a failure to start a process does not take the run down.
C5_SpawnFailureTolerated ==
    \A i \in Units : ~Started(i) => (mainpc # "crashed" /\ error = "none")

\* C6: the counter starts at 0, every sequence number is the previous one
\* plus one, the unit created in a tick gets the new value, the i-th unit
\* holds i, and only the control loop's tick changes the counter.
C6_SequenceStrictlyIncreasing ==
    [][ /\ (mainpc = "idle" /\ mainpc' # "idle") => request_count' = 0
        /\ request_count' # request_count =>
              /\ mainpc = "spawn"
              /\ request_count' = request_count + 1
              /\ Len(processes') = Len(processes) + 1
        /\ Len(processes') # Len(processes) =>
              /\ Len(processes') = Len(processes) + 1
              /\ request_count' = request_count + 1
              /\ processes'[Len(processes')].arg = request_count'
        /\ \A i \in 1..Len(processes') : processes'[i].arg = i
      ]_vars

\* two ticks have handed out the values 1 and 2
C6_Witness ==
    /\ request_count = 2
    /\ Len(processes) = 2
    /\ processes[1].arg = 1
    /\ processes[2].arg = 2

\* C7: the total of the summary is the number of ticks attempted, the final
\* value of the counter and the length of the process list.
C7_TotalIssuedIsAttempted ==
    \A k \in 1..Len(summary) :
        /\ summary[k].total = ticks
        /\ summary[k].total = request_count
        /\ summary[k].total = Len(processes)

\* a summary of a run with a rejected, a failed and an abandoned unit or two
C7_Witness ==
    /\ summary # <<>>
    /\ abandoned # {}
    /\ SomeFailureReported
    /\ Len(processes) = 2

\* C8: a run that has come to its end is Stopped, has printed exactly one
\* summary, and every unit it launched has ended or has had its join time
\* out.
C8_RunEndsStoppedWithSummary ==
    mainpc \notin {"idle", "check", "spawn", "rate", "join"} =>
        /\ mainpc = "stopped"
        /\ Len(summary) = 1
        /\ \A i \in Units : Ended(processes[i]) \/ i \in abandoned

\* C9: no outcome line of an abandoned unit comes out after the summary.
C9_NoOutcomeAfterSummary ==
    \A i \in abandoned : \A k \in 1..Len(Outcomes(i)) : ~Outcomes(i)[k].late

\* C10: the tick's last step sleeps for TARGET_INTERVAL minus the time the
\* tick took when that is positive and does not call sleep otherwise; no step
\* adds more than one unit and there are never more units than ticks.
C10_SleepNeverNegativeNoBurst ==
    [][ /\ (mainpc = "rate" /\ mainpc' # "rate") =>
              LET took == now - iteration_start_time
              IN IF TARGET_INTERVAL - took > 0
                 THEN /\ slept' = {TARGET_INTERVAL - took}
                      /\ now' >= now + (TARGET_INTERVAL - took)
                 ELSE /\ slept' = {}
                      /\ now' = now
        /\ \A a \in slept' : a > 0
        /\ Len(processes') <= Len(processes) + 1
        /\ Len(processes') <= ticks'
        /\ (mainpc = "check" /\ mainpc' = "spawn") => ticks' = Len(processes) + 1
      ]_vars

\* a tick overran its interval and the loop went on without sleeping
C10_Witness ==
    /\ mainpc = "check"
    /\ sleep_time < 0
    /\ slept = {}

\* the loop of lines 112-129 has been left through its test
AfterLoop ==
    \/ mainpc \in {"join", "stopped"}
    \/ mainpc = "crashed" /\ error = "ZeroDivisionError"

\* C11: the number of issued tasks is never more than one above the number
\* of target intervals that fit in the duration, and once the loop is over
\* the issued tasks' intervals plus the time lost to late launches and long
\* sleeps cover the duration: issued >= (D - lost) / interval.
C11_IssuedNearDurationTimesRate ==
    /\ request_count <= (DURATION_SECONDS \div TARGET_INTERVAL) + 1
    /\ mainpc = "check" =>
          now - start_time = request_count * TARGET_INTERVAL + lost
    /\ AfterLoop =>
          request_count * TARGET_INTERVAL + lost >= DURATION_SECONDS

\* a run that issued fewer tasks than D x R because a launch overran
C11_Witness ==
    /\ AfterLoop
    /\ lost > 0
    /\ request_count * TARGET_INTERVAL < DURATION_SECONDS

\* C12: a tick is begun and a process created only while the elapsed time is
\* below the duration, and once the loop test has failed no task is issued
\* and the loop is not entered again.
C12_IssuanceDeadline ==
    [][ /\ (mainpc = "check" /\ mainpc' = "spawn") =>
              (now - start_time) < DURATION_SECONDS
        /\ (mainpc = "check" /\ (now - start_time) >= DURATION_SECONDS) =>
              mainpc' \in {"check", "join"}
        /\ Len(processes') > Len(processes) =>
              (iteration_start_time' - start_time) < DURATION_SECONDS
        /\ mainpc \in {"join", "stopped", "crashed"} =>
              /\ mainpc' \in {"join", "stopped", "crashed"}
              /\ request_count' = request_count
              /\ Len(processes') = Len(processes)
              /\ ticks' = ticks
      ]_vars

\* the loop test has failed after two issued tasks, with units still running
C12_Witness ==
    /\ mainpc = "join"
    /\ request_count = 2
    /\ now - start_time >= DURATION_SECONDS
    /\ \E i \in Units : Running(processes[i])

\* C13: computing the summary never fails with a division by zero.
C13_SummaryNeverFails == error # "ZeroDivisionError"

\* C18: a run whose duration is shorter than one interval issues at most one
\* task, and when it is over it has stopped normally, having issued one task
\* if the duration was positive and none if it was zero.
C18_DegenerateRun ==
    DURATION_SECONDS < TARGET_INTERVAL =>
        /\ request_count <= 1
        /\ mainpc \in {"stopped", "crashed"} =>
              /\ mainpc = "stopped"
              /\ request_count = (IF DURATION_SECONDS > 0 THEN 1 ELSE 0)

\* C20: a SUCCESS line carries a status in 200..299, a FAILED line carries
\* the status of the response, which is outside that range, and a CRITICAL
\* ERROR line is printed only by a unit that got no complete response, that
\* is, one that has printed neither SUCCESS nor FAILED.
C20_OutcomeByStatusAlone ==
    \A i \in Units : \A k \in 1..Len(Outcomes(i)) :
        LET l == Outcomes(i)[k]
        IN /\ l.kind = "SUCCESS" => (200 <= l.status /\ l.status <= 299)
           /\ l.kind = "FAILED" =>
                 (l.status \in Statuses /\ ~(200 <= l.status /\ l.status <= 299))
           /\ l.kind = "CRITICAL ERROR" => k = 1

\* ------------------------------------------------- properties, responder
Answered(c) == conns[c].pc = "done"

Echoes(c, param, id) ==
    /\ conns[c].resp.code = 200
    /\ conns[c].resp.kind = "soap"
    /\ conns[c].resp.received_param = param
    /\ conns[c].resp.received_request_id = id

\* C14: the request the client builds for pid p and sequence number n is
\* never left unanswered, and its answer is status 200 with receivedParam
\* the decimal text of BASE_PARAMETER_VALUE + n and received_request_id the
\* text P<p>-R<n>.
C14_RoundTrip ==
    \A c \in Conns : \A p \in PidPool : \A n \in 1..MaxDuration :
        conns[c].req = ClientRequest(p, n) =>
            /\ conns[c].pc # "aborted"
            /\ Answered(c) =>
                  Echoes(c, Str(BASE_PARAMETER_VALUE + n),
                         <<"P">> \o Str(p) \o <<"-", "R">> \o Str(n))

\* the request of pid 2, sequence number 2 has been answered
C14_Witness ==
    \E c \in Conns : Answered(c) /\ conns[c].req = ClientRequest(2, 2)

\* C15: a request without identifier element, or with an identifier element
\* without text, is answered with status 200, its parameter, and "N/A" as
\* received_request_id.
C15_MissingIdIsNA ==
    \A c \in Conns :
        (conns[c].req \in {NoIdRequest, EmptyIdRequest}) =>
            /\ conns[c].pc # "aborted"
            /\ Answered(c) => Echoes(c, V1, <<"N", "/", "A">>)

\* both kinds of request have been answered
C15_Witness ==
    \E c, d \in Conns :
        /\ Answered(c) /\ conns[c].req = NoIdRequest
        /\ Answered(d) /\ conns[d].req = EmptyIdRequest

\* requests to the service path that cannot be read, parsed or extracted from
Unextractable ==
    {NoLengthRequest, MalformedRequest, NoBodyRequest, NoMethodRequest,
     NoParamRequest, TempuriRequest}

\* C16: a request to the service path that cannot be read or parsed, or lacks
\* Body, method or parameter, is answered, with a 400-class status and a
\* diagnostic body, and the other connections get their own answers.
C16_ExtractionErrorIs400 ==
    \A c \in Conns :
        (conns[c].req \in Unextractable /\ conns[c].pc \in {"done", "aborted"}) =>
            /\ conns[c].pc = "done"
            /\ conns[c].resp.code >= 400
            /\ conns[c].resp.code <= 499
            /\ conns[c].resp.kind = "html"

\* C17: what a handler holds after the extraction, and what the success
\* response carries, are the fields of that connection's own request,
\* whatever the other connections are doing.
C17_NoCrossTalk ==
    \A c \in Conns :
        LET own == Extract(conns[c].req)
        IN /\ conns[c].pc = "extracted" =>
                 /\ hlocals[c].received_param = own.received_param
                 /\ hlocals[c].received_request_id = own.received_request_id
           /\ (Answered(c) /\ conns[c].resp.code = 200) =>
                 Echoes(c, Format(own.received_param),
                        Format(own.received_request_id))

\* one connection has been answered while another, with other fields, had
\* been through its extraction and was waiting to respond
C17_Witness ==
    \E c, d \in Conns :
        /\ Answered(c) /\ conns[c].resp.code = 200
        /\ conns[d].pc = "extracted"
        /\ conns[c].req = ClientRequest(1, 1)
        /\ conns[d].req = ClientRequest(2, 2)

\* C19: when method, parameter and identifier exist both under the client's
\* namespace and without namespace, the answer carries the fields of the
\* namespaced ones, also when the others come first in the document; when
\* they exist only without namespace they are found.
C19_TwoTierLookup ==
    \A c \in Conns :
        /\ (Answered(c) /\ conns[c].req = BothFormsRequest) => Echoes(c, V1, ID1)
        /\ (Answered(c) /\ conns[c].req = PlainRequest) => Echoes(c, V1, ID1)
        /\ conns[c].req \in {BothFormsRequest, PlainRequest} =>
              conns[c].pc # "aborted"

\* both kinds of request have been answered
C19_Witness ==
    \E c, d \in Conns :
        /\ Answered(c) /\ conns[c].req = BothFormsRequest
        /\ Answered(d) /\ conns[d].req = PlainRequest

====
